---- MODULE Spec2Model ----
(***************************************************************************)
(* Model of the two streaming inflate engines of compression-lib:          *)
(*   Decompressor      (src/src/lib.rs)   push / finish                    *)
(*   ZlibDecompressor  (src/src/zlib.rs)  push, gated on Z_SYNC_FLUSH      *)
(* One engine instance is modelled per behaviour (variable kind says which *)
(* struct was constructed).  A handler runs one loop iteration (one call   *)
(* of inflate) per step; while pc # "idle" only the running handler's step *)
(* is enabled, so a call is atomic for the caller.                         *)
(*                                                                         *)
(* The zlib-rs context is an external library.  Under Spec it is the       *)
(* deterministic abstract decoder inflate below; under SpecAny every       *)
(* outcome the step interface allows may be returned.                      *)
(***************************************************************************)
EXTENDS Integers, Sequences, FiniteSets, TLC

\* ------------------------------------------------------------------ bounds

\* Bytes of compressed input pushed to a Decompressor over its lifetime.
MaxTotal == 4

\* A ZlibDecompressor's internal_buffer holds at most MaxCodes code bytes,
\* followed by bytes of the flush marker's alphabet, at most as many as the
\* marker has.
MaxCodes == 2

\* A push to a ZlibDecompressor brings at most MaxPush bytes, or a whole frame
\* (codes, then the marker).
MaxPush == 2

\* Largest chunk_size a ZlibDecompressor is constructed with (0..MaxChunkSize).
MaxChunkSize == 2

\* Largest output_buffer a call collects when the context is unconstrained
\* (SpecAny); the abstract decoder of Spec never gets near it.
MaxOut == 4

\* lib.rs:19 sets 16 KiB; scaled so that output straddles scratch buffers.
OUTPUT_CHUNK_SIZE == 3

\* ------------------------------------------------------------------- bytes

\* 0 and 255 are the bytes of the flush marker; the decoder consumes them
\* without output (an empty stored block).  1 is a code that expands to two
\* output bytes, 2 ends the stream (the trailer), 3 is an invalid code.
Bytes == {0, 255, 1, 2, 3}

Codes == {1, 2, 3}

FlushBytes == {0, 255}

Z_SYNC_FLUSH_SUFFIX == <<0, 0, 255, 255>>

RECURSIVE SeqsUpTo(_, _)
SeqsUpTo(S, n) ==
    IF n = 0 THEN {<<>>}
    ELSE LET shorter == SeqsUpTo(S, n - 1)
         IN  shorter \cup {Append(s, b) : s \in {t \in shorter : Len(t) = n - 1}, b \in S}

Drop(s, n) == SubSeq(s, n + 1, Len(s))
Take(s, n) == SubSeq(s, 1, n)
Min(a, b) == IF a < b THEN a ELSE b

\* A byte buffer (napi Buffer, Vec<u8>).  huge says that bytes are preceded by
\* more than u32::MAX bytes of value 1, which no operation below looks at;
\* otherwise bytes is the whole content.
Buf(h, s) == [huge |-> h, bytes |-> s]
EmptyBuf == Buf(FALSE, <<>>)

\* An assignment in place of the append: the old content is lost.
extend_from_slice_overwrite(a, b) == b

\* Vec::extend_from_slice
extend_from_slice(a, b) ==
    IF b.huge THEN b ELSE Buf(a.huge, a.bytes \o b.bytes)

\* A suffix test that compares the last two bytes only.
ends_with_last2(b, suffix) ==
    /\ Len(b.bytes) >= 2 /\ Len(suffix) >= 2
    /\ Drop(b.bytes, Len(b.bytes) - 2) = Drop(suffix, Len(suffix) - 2)

\* slice::ends_with
ends_with(b, suffix) ==
    /\ Len(b.bytes) >= Len(suffix)
    /\ Drop(b.bytes, Len(b.bytes) - Len(suffix)) = suffix

\* A take that leaves the marker behind in the source.
mem_take_leave_suffix(b) ==
    [taken |-> b,
     left |-> Buf(FALSE, Drop(b.bytes, Len(b.bytes) - Min(Len(Z_SYNC_FLUSH_SUFFIX),
                                                         Len(b.bytes))))]

\* A clone in place of the take: the source keeps its content.
mem_take_clone(b) == [taken |-> b, left |-> b]

\* An assignment in place of the append to output_buffer.
output_extend_replace(out, slice) == slice

\* output_buffer.extend_from_slice(&temp_out_buf[..n])
output_extend(out, slice) == out \o slice

\* std::mem::take: the value handed out, and what is left in its place.
mem_take(b) == [taken |-> b, left |-> EmptyBuf]

\* A truncating cast in place of try_into: no length is refused.
try_into_truncating(b) == TRUE

\* usize -> u32 by try_into: fails exactly when the length exceeds u32::MAX.
try_into_ok(b) == ~b.huge

\* ------------------------------------------------- the decompression context

\* mode: "run" | "done" (stream end reached) | "bad" (data error met);
\* pending: output decoded from consumed input that did not fit yet.
InitStream == [mode |-> "run", pending |-> <<>>]

Expand(b) == IF b = 1 THEN <<11, 12>> ELSE <<>>

RECURSIVE InflateRun(_, _, _, _, _)
InflateRun(mode, pending, in, out, cap) ==
    IF mode = "bad" THEN
        [code |-> "DataError", mode |-> mode, pending |-> pending, rest |-> in, out |-> out]
    ELSE IF mode = "done" THEN
        [code |-> "StreamEnd", mode |-> mode, pending |-> pending, rest |-> in, out |-> out]
    ELSE IF pending # <<>> THEN
        IF Len(out) < cap
        THEN InflateRun(mode, Tail(pending), in, Append(out, Head(pending)), cap)
        ELSE [code |-> "Ok", mode |-> mode, pending |-> pending, rest |-> in, out |-> out]
    ELSE IF in = <<>> THEN
        [code |-> "Ok", mode |-> mode, pending |-> pending, rest |-> in, out |-> out]
    ELSE IF Head(in) = 2 THEN InflateRun("done", <<>>, Tail(in), out, cap)
    ELSE IF Head(in) = 3 THEN InflateRun("bad", <<>>, Tail(in), out, cap)
    ELSE InflateRun(mode, Expand(Head(in)), Tail(in), out, cap)

\* One call of inflate: what it consumed of in, what it wrote (at most cap
\* bytes), its return code and the context afterwards.  A call that made no
\* progress, and every call with Finish that did not reach the end, reports
\* BufError.
inflate(strm, in, cap, flush) ==
    LET r == InflateRun(strm.mode, strm.pending, in, <<>>, cap)
        consumed == Len(in) - Len(r.rest)
        code == IF r.code = "Ok" /\ ((consumed = 0 /\ r.out = <<>>) \/ flush = "Finish")
                THEN "BufError" ELSE r.code
    IN  [code |-> code, consumed |-> consumed, out |-> r.out,
         strm |-> [mode |-> r.mode, pending |-> r.pending]]

\* The whole output of a compressed stream, given unbounded output space.
Decode(s) == inflate(InitStream, s, 2 * Len(s), "NoFlush").out

\* Every outcome the step interface allows: any code, any part of the input
\* consumed, any part of the scratch buffer written; NoRef is
\* InflateStream::from_stream_mut returning None.
AnyOutcomes(strm, in, cap) ==
    {[code |-> c, consumed |-> n, out |-> [i \in 1..m |-> 11], strm |-> strm] :
        c \in {"Ok", "StreamEnd", "BufError", "DataError"},
        n \in 0..Len(in), m \in 0..cap}
    \cup {[code |-> "NoRef", consumed |-> 0, out |-> <<>>, strm |-> strm]}

\* ------------------------------------------------------------------- state

VARIABLES
    kind,             \* "Decompressor" | "ZlibDecompressor": the struct constructed
    lib,              \* "zlib": the abstract decoder; "any": an unconstrained context
    chunk_size,       \* ZlibDecompressor.chunk_size
    finished,         \* .finished of either struct
    internal_buffer,  \* ZlibDecompressor.internal_buffer
    strm,             \* the z_stream behind stream_ptr
    pc,               \* "idle" | "push" | "finish" | "zpush": the handler running;
                      \* "dropped": the struct has been dropped
    released,         \* the number of inflate::end calls on the context so far
    input_chunk,      \* local of the running handler (empty when none runs)
    output_buffer,    \* local of the running handler (empty when none runs)
    result,           \* what the last call returned to the host
    entry,            \* the last call: operation, argument, fields at entry
    stepped,          \* the running/last call has called inflate
    tick,             \* flips at every call of inflate by the running handler
    fed,              \* bytes the context consumed during the running/last call
    produced,         \* bytes the context wrote during the running/last call
    last_code,        \* the return code of the latest inflate call of that call
    last_written,     \* the number of bytes that inflate call wrote
    errEver,          \* some call has met an error code or a missing reference
    pushed,           \* Decompressor: all bytes pushed so far, in order
    delivered,        \* Decompressor: the data fields returned so far, concatenated
    phase             \* Decompressor: "pushing" | "finish1" (pushes, then one finish) | "other"

vars == <<kind, lib, chunk_size, finished, internal_buffer, strm, pc, input_chunk,
          output_buffer, result, entry, stepped, tick, fed, produced, last_code,
          last_written, errEver,
          pushed, delivered, phase, released>>

\* What no handler writes.
engine == <<kind, lib, chunk_size, released>>

\* ---------------------------------------------------------------- envelopes

NoResult == [ret |-> "none", fields |-> {}, ok |-> FALSE, data |-> <<>>,
             finished |-> FALSE, error |-> ""]

\* Result::Err(napi::Error): no envelope object is returned.
Err(msg) == [ret |-> "Err", fields |-> {}, ok |-> FALSE, data |-> <<>>,
             finished |-> FALSE, error |-> msg]

\* { ok: false, error }
ErrorObj(msg) == [ret |-> "object", fields |-> {"ok", "error"}, ok |-> FALSE,
                  data |-> <<>>, finished |-> FALSE, error |-> msg]

\* A success envelope whose data field is set whether or not there is output.
ResultObj_always_data(out, fin) ==
    [ret |-> "object", fields |-> {"ok", "finished", "data"},
     ok |-> TRUE, data |-> out, finished |-> fin, error |-> ""]

\* { ok: true, data?, finished }: data is set only when output_buffer is not empty.
ResultObj(out, fin) ==
    [ret |-> "object",
     fields |-> {"ok", "finished"} \cup (IF out # <<>> THEN {"data"} ELSE {}),
     ok |-> TRUE, data |-> out, finished |-> fin, error |-> ""]

\* { ok: true, data? } of ZlibDecompressor::push
ZResultObj(out) ==
    [ret |-> "object",
     fields |-> {"ok"} \cup (IF out # <<>> THEN {"data"} ELSE {}),
     ok |-> TRUE, data |-> out, finished |-> FALSE, error |-> ""]

\* The outcomes inflate may give the running handler.
Outcomes(in, cap, flush) ==
    IF lib = "zlib" THEN {inflate(strm, in, cap, flush)}
    ELSE {r \in AnyOutcomes(strm, in, cap) : Len(output_buffer) + Len(r.out) <= MaxOut}

\* Handlers without the early return on finished.
already_finished_never(fin) == FALSE

\* `if self.finished` at the head of push and finish.
already_finished(fin) == fin

\* ------------------------------------------------------ Decompressor::push

\* A push match that takes StreamEnd for an ordinary stop.
push_match_end_unlatched(code, input_empty, avail_out) ==
    CASE code = "Ok" ->
            IF input_empty THEN "break"
            ELSE IF avail_out = 0 THEN "continue"
            ELSE "break"
      [] code = "StreamEnd" -> "break"
      [] code = "BufError" -> IF ~input_empty THEN "continue" ELSE "break"
      [] OTHER -> "error"

\* A push match that returns after every Ok, the scratch buffer full or not.
push_match_no_refill(code, input_empty, avail_out) ==
    CASE code = "Ok" -> "break"
      [] code = "StreamEnd" -> "end"
      [] code = "BufError" -> IF ~input_empty THEN "continue" ELSE "break"
      [] OTHER -> "error"

\* The match on result_code: what the loop does next.
push_match(code, input_empty, avail_out) ==
    CASE code = "Ok" ->
            IF input_empty THEN "break"
            ELSE IF avail_out = 0 THEN "continue"
            ELSE "break"
      [] code = "StreamEnd" -> "end"
      [] code = "BufError" -> IF ~input_empty THEN "continue" ELSE "break"
      [] OTHER -> "error"

\* One iteration of the loop around an inflate call that returned r, from the
\* locals in (input_chunk) and out (output_buffer): the locals afterwards,
\* whether the handler goes on (pc) and, when it returns, the latch and the
\* envelope.
push_iter(fin, in, out, r) ==
    LET avail_out == OUTPUT_CHUNK_SIZE - Len(r.out)
        written_in_call == OUTPUT_CHUNK_SIZE - avail_out
        out2 == IF written_in_call > 0 THEN output_extend(out, Take(r.out, written_in_call)) ELSE out
        in2 == Drop(in, r.consumed)
        next == push_match(r.code, in2 = <<>>, avail_out)
    IN  IF r.code = "NoRef" THEN
            [pc |-> "idle", finished |-> TRUE, input_chunk |-> in, output_buffer |-> out,
             result |-> ErrorObj("Failed to get inflate stream reference")]
        ELSE IF next = "continue" THEN
            [pc |-> "push", finished |-> fin, input_chunk |-> in2, output_buffer |-> out2,
             result |-> NoResult]
        ELSE IF next = "end" THEN
            [pc |-> "idle", finished |-> TRUE, input_chunk |-> in2, output_buffer |-> out2,
             result |-> ResultObj(out2, TRUE)]
        ELSE IF next = "error" THEN
            [pc |-> "idle", finished |-> TRUE, input_chunk |-> in2, output_buffer |-> out2,
             result |-> ErrorObj("Inflate error")]
        ELSE
            [pc |-> "idle", finished |-> fin, input_chunk |-> in2, output_buffer |-> out2,
             result |-> ResultObj(out2, FALSE)]

NewCall(op, data) ==
    /\ entry' = [op |-> op, data |-> data, finished |-> finished,
                 buffer |-> internal_buffer]
    /\ stepped' = FALSE
    /\ tick' = FALSE
    /\ fed' = <<>>
    /\ produced' = <<>>
    /\ last_code' = "none"
    /\ last_written' = 0

\* What a returned envelope adds to the Decompressor's delivered output.
Deliver(res) == IF "data" \in res.fields THEN delivered \o res.data ELSE delivered

\* push(data), up to the loop: lib.rs 74-92.
PushCall(data) ==
    /\ kind = "Decompressor" /\ pc = "idle"
    /\ NewCall("push", data)
    /\ pushed' = IF data.huge THEN pushed ELSE pushed \o data.bytes
    /\ phase' = IF phase = "pushing" /\ ~data.huge THEN "pushing" ELSE "other"
    /\ IF already_finished(finished)
       THEN /\ result' = [ret |-> "object", fields |-> {"ok", "finished"}, ok |-> TRUE,
                          data |-> <<>>, finished |-> TRUE, error |-> ""]
            /\ UNCHANGED <<pc, input_chunk, output_buffer>>
       ELSE /\ pc' = "push"
            /\ input_chunk' = data
            /\ output_buffer' = <<>>
            /\ result' = NoResult
    /\ UNCHANGED <<engine, finished, internal_buffer, strm, errEver, delivered>>

\* One pass of the loop of push: lib.rs 94-186, and the return after it.
PushStep ==
    /\ pc = "push"
    /\ IF input_chunk.bytes = <<>> /\ ~input_chunk.huge THEN
            /\ result' = ResultObj(output_buffer, FALSE)
            /\ delivered' = Deliver(result')
            /\ pc' = "idle"
            /\ input_chunk' = EmptyBuf
            /\ output_buffer' = <<>>
            /\ UNCHANGED <<finished, strm, stepped, tick, fed, produced, last_code,
                           last_written, errEver>>
       ELSE IF ~try_into_ok(input_chunk) THEN
            /\ result' = Err("Input chunk too large")
            /\ pc' = "idle"
            /\ input_chunk' = EmptyBuf
            /\ output_buffer' = <<>>
            /\ UNCHANGED <<finished, strm, stepped, tick, fed, produced, last_code,
                           last_written, errEver, delivered>>
       ELSE \E r \in Outcomes(input_chunk.bytes, OUTPUT_CHUNK_SIZE, "NoFlush") :
            LET n == push_iter(finished, input_chunk.bytes, output_buffer, r)
            IN  /\ pc' = n.pc
                /\ finished' = n.finished
                /\ input_chunk' = IF n.pc = "idle" THEN EmptyBuf ELSE Buf(FALSE, n.input_chunk)
                /\ output_buffer' = IF n.pc = "idle" THEN <<>> ELSE n.output_buffer
                /\ result' = n.result
                /\ strm' = r.strm
                /\ stepped' = (r.code # "NoRef" \/ stepped)
                /\ tick' = ~tick
                /\ fed' = fed \o Take(input_chunk.bytes, r.consumed)
                /\ produced' = produced \o r.out
                /\ last_code' = r.code
                /\ last_written' = Len(r.out)
                /\ errEver' = (errEver \/ r.code \in {"DataError", "NoRef"})
                /\ delivered' = IF n.pc = "idle" THEN Deliver(n.result) ELSE delivered
    /\ UNCHANGED <<engine, internal_buffer, entry, pushed, phase>>

\* ---------------------------------------------------- Decompressor::finish

\* A finish match that reports BufError with nothing written as any other code.
finish_match_no_too_small(code, written_in_call) ==
    CASE code = "StreamEnd" -> "end"
      [] code = "Ok" -> IF written_in_call = 0 THEN "end" ELSE "continue"
      [] code = "BufError" -> IF written_in_call = 0 THEN "error" ELSE "continue"
      [] OTHER -> "error"

\* A finish match that takes BufError with nothing written for the end.
finish_match_lenient(code, written_in_call) ==
    CASE code = "StreamEnd" -> "end"
      [] code = "Ok" -> IF written_in_call = 0 THEN "end" ELSE "continue"
      [] code = "BufError" -> IF written_in_call = 0 THEN "end" ELSE "continue"
      [] OTHER -> "error"

\* The match on result_code in finish: what the loop does next.
finish_match(code, written_in_call) ==
    CASE code = "StreamEnd" -> "end"
      [] code = "Ok" -> IF written_in_call = 0 THEN "end" ELSE "continue"
      [] code = "BufError" -> IF written_in_call = 0 THEN "too_small" ELSE "continue"
      [] OTHER -> "error"

\* One iteration of the loop of finish around an inflate call that returned r.
finish_iter(fin, out, r) ==
    LET avail_out == OUTPUT_CHUNK_SIZE - Len(r.out)
        written_in_call == OUTPUT_CHUNK_SIZE - avail_out
        out2 == IF written_in_call > 0 THEN output_extend(out, Take(r.out, written_in_call)) ELSE out
        again == [pc |-> "finish", finished |-> fin, output_buffer |-> out2,
                  result |-> NoResult]
        fail(msg) == [pc |-> "idle", finished |-> TRUE, output_buffer |-> out2,
                      result |-> ErrorObj(msg)]
        done == [pc |-> "idle", finished |-> TRUE, output_buffer |-> out2,
                 result |-> ResultObj(out2, TRUE)]
        next == finish_match(r.code, written_in_call)
    IN  CASE r.code = "NoRef" ->
                [pc |-> "idle", finished |-> TRUE, output_buffer |-> out,
                 result |-> ErrorObj("Failed to get inflate stream reference during finish")]
          [] next = "end" -> done
          [] next = "continue" -> again
          [] next = "too_small" -> fail("Output buffer too small to finish inflation")
          [] OTHER -> fail("Inflate finish error")

\* finish(), up to the loop: lib.rs 206-219.
FinishCall ==
    /\ kind = "Decompressor" /\ pc = "idle"
    /\ NewCall("finish", EmptyBuf)
    /\ phase' = IF phase = "pushing" THEN "finish1" ELSE "other"
    /\ IF already_finished(finished)
       THEN /\ result' = [ret |-> "object", fields |-> {"ok", "finished"}, ok |-> TRUE,
                          data |-> <<>>, finished |-> TRUE, error |-> ""]
            /\ UNCHANGED <<pc, output_buffer>>
       ELSE /\ pc' = "finish"
            /\ output_buffer' = <<>>
            /\ result' = NoResult
    /\ UNCHANGED <<engine, finished, internal_buffer, strm, input_chunk, errEver,
                   pushed, delivered>>

\* One pass of the loop of finish: lib.rs 221-301, and the return after it.
FinishStep ==
    /\ pc = "finish"
    /\ \E r \in Outcomes(<<>>, OUTPUT_CHUNK_SIZE, "Finish") :
            LET n == finish_iter(finished, output_buffer, r)
            IN  /\ pc' = n.pc
                /\ finished' = n.finished
                /\ output_buffer' = IF n.pc = "idle" THEN <<>> ELSE n.output_buffer
                /\ result' = n.result
                /\ strm' = r.strm
                /\ stepped' = (r.code # "NoRef" \/ stepped)
                /\ tick' = ~tick
                /\ produced' = produced \o r.out
                /\ last_code' = r.code
                /\ last_written' = Len(r.out)
                /\ errEver' = (errEver \/ r.code \in {"DataError", "NoRef"})
                /\ delivered' = IF n.pc = "idle" THEN Deliver(n.result) ELSE delivered
    /\ UNCHANGED <<engine, internal_buffer, input_chunk, entry, fed, pushed, phase>>

\* --------------------------------------------------- ZlibDecompressor::push

\* A frame match that takes StreamEnd for an ordinary stop.
zpush_match_end_unlatched(code, avail_out) ==
    CASE code = "Ok" -> IF avail_out = 0 THEN "continue" ELSE "break"
      [] code = "StreamEnd" -> "break"
      [] code = "BufError" -> IF avail_out = 0 THEN "continue" ELSE "break"
      [] OTHER -> "error"

\* A frame match that stops at an error code without reporting it.
zpush_match_silent(code, avail_out) ==
    CASE code = "Ok" -> IF avail_out = 0 THEN "continue" ELSE "break"
      [] code = "StreamEnd" -> "end"
      [] code = "BufError" -> IF avail_out = 0 THEN "continue" ELSE "break"
      [] OTHER -> "break"

\* The match on result_code in the inner loop.
zpush_match(code, avail_out) ==
    CASE code = "Ok" -> IF avail_out = 0 THEN "continue" ELSE "break"
      [] code = "StreamEnd" -> "end"
      [] code = "BufError" -> IF avail_out = 0 THEN "continue" ELSE "break"
      [] OTHER -> "error"

\* One pass of the inner loop around an inflate call that returned r, and,
\* when the inner loop breaks, the test of the outer while.
zpush_iter_with(temp_len, fin, in, out, r) ==
    LET avail_out == temp_len - Len(r.out)
        written_in_call == Len(r.out)
        actual_written == Min(written_in_call, temp_len)
        out2 == IF written_in_call > 0 THEN output_extend(out, Take(r.out, actual_written)) ELSE out
        in2 == Drop(in, r.consumed)
        next == zpush_match(r.code, avail_out)
    IN  IF r.code = "NoRef" THEN
            [pc |-> "idle", finished |-> TRUE, input_chunk |-> in, output_buffer |-> out,
             result |-> ErrorObj("Failed to get inflate stream reference")]
        ELSE IF next = "continue" THEN
            [pc |-> "zpush", finished |-> fin, input_chunk |-> in2, output_buffer |-> out2,
             result |-> NoResult]
        ELSE IF next = "end" THEN
            [pc |-> "idle", finished |-> TRUE, input_chunk |-> in2, output_buffer |-> out2,
             result |-> ZResultObj(out2)]
        ELSE IF next = "error" THEN
            [pc |-> "idle", finished |-> TRUE, input_chunk |-> in2, output_buffer |-> out2,
             result |-> ErrorObj("Inflate error")]
        ELSE IF in2 # <<>> THEN
            [pc |-> "zpush", finished |-> fin, input_chunk |-> in2, output_buffer |-> out2,
             result |-> NoResult]
        ELSE
            [pc |-> "idle", finished |-> fin, input_chunk |-> in2, output_buffer |-> out2,
             result |-> ZResultObj(out2)]

\* The same with temp_out_buf of the engine's chunk_size (zlib.rs 93).
zpush_iter(fin, in, out, r) == zpush_iter_with(chunk_size, fin, in, out, r)

\* push(data), up to the loops: zlib.rs 68-95.
ZPushCall(data) ==
    /\ kind = "ZlibDecompressor" /\ pc = "idle"
    /\ NewCall("zpush", data)
    /\ IF already_finished(finished) THEN
            /\ result' = ZResultObj(<<>>)
            /\ UNCHANGED <<pc, internal_buffer, input_chunk, output_buffer>>
       ELSE IF ~ends_with(extend_from_slice(internal_buffer, data), Z_SYNC_FLUSH_SUFFIX) THEN
            /\ internal_buffer' = extend_from_slice(internal_buffer, data)
            /\ result' = ZResultObj(<<>>)
            /\ UNCHANGED <<pc, input_chunk, output_buffer>>
       ELSE /\ internal_buffer' = mem_take(extend_from_slice(internal_buffer, data)).left
            /\ input_chunk' = mem_take(extend_from_slice(internal_buffer, data)).taken
            /\ output_buffer' = <<>>
            /\ result' = NoResult
            /\ pc' = "zpush"
    /\ UNCHANGED <<engine, finished, strm, errEver, pushed, delivered, phase>>

\* One call of inflate in the loops of push: zlib.rs 97-178, and the return.
ZPushStep ==
    /\ pc = "zpush"
    /\ IF ~try_into_ok(input_chunk) THEN
            /\ result' = Err("Input chunk too large")
            /\ pc' = "idle"
            /\ input_chunk' = EmptyBuf
            /\ output_buffer' = <<>>
            /\ UNCHANGED <<finished, strm, stepped, tick, fed, produced, last_code,
                           last_written, errEver>>
       ELSE \E r \in Outcomes(input_chunk.bytes, chunk_size, "NoFlush") :
            LET n == zpush_iter(finished, input_chunk.bytes, output_buffer, r)
            IN  /\ pc' = n.pc
                /\ finished' = n.finished
                /\ input_chunk' = IF n.pc = "idle" THEN EmptyBuf ELSE Buf(FALSE, n.input_chunk)
                /\ output_buffer' = IF n.pc = "idle" THEN <<>> ELSE n.output_buffer
                /\ result' = n.result
                /\ strm' = r.strm
                /\ stepped' = (r.code # "NoRef" \/ stepped)
                /\ tick' = ~tick
                /\ fed' = fed \o Take(input_chunk.bytes, r.consumed)
                /\ produced' = produced \o r.out
                /\ last_code' = r.code
                /\ last_written' = Len(r.out)
                /\ errEver' = (errEver \/ r.code \in {"DataError", "NoRef"})
    /\ UNCHANGED <<engine, internal_buffer, entry, pushed, delivered, phase>>

\* ------------------------------------------------------------ specification

HugeInputs == {Buf(TRUE, <<>>), Buf(TRUE, Z_SYNC_FLUSH_SUFFIX)}

\* Streams pushed to a Decompressor: 255 is left out, the decoder treats it as 0.
PushSeqs == [n \in 0..MaxTotal |-> {Buf(FALSE, s) : s \in SeqsUpTo(Bytes \ {255}, n)}]

\* An unconstrained context does not look at the bytes: one code stands for all.
PushSeqsAny == [n \in 0..MaxTotal |-> {Buf(FALSE, s) : s \in SeqsUpTo({1}, n)}]

PushInputs ==
    (IF lib = "zlib" THEN PushSeqs ELSE PushSeqsAny)[MaxTotal - Len(pushed)]
    \cup HugeInputs

\* Contents of internal_buffer: codes, then bytes of the marker's alphabet
\* (a huge buffer: only the latter).
IsZSeq(s, maxc) ==
    \E k \in 0..Min(Len(s), maxc) :
        /\ Len(s) - k <= Len(Z_SYNC_FLUSH_SUFFIX)
        /\ \A i \in 1..Len(s) : s[i] \in (IF i <= k THEN Codes ELSE FlushBytes)

ZSeqs == SeqsUpTo(Bytes, MaxPush)
         \cup {p \o Z_SYNC_FLUSH_SUFFIX : p \in SeqsUpTo(Codes, MaxCodes)}

ZSeqsAny == SeqsUpTo(FlushBytes \cup {1}, MaxPush)
            \cup {p \o Z_SYNC_FLUSH_SUFFIX : p \in SeqsUpTo({1}, MaxCodes)}

ZPushInputs ==
    {Buf(FALSE, s) : s \in {t \in (IF lib = "zlib" THEN ZSeqs ELSE ZSeqsAny) : IsZSeq(internal_buffer.bytes \o t,
                                  IF internal_buffer.huge THEN 0 ELSE MaxCodes)}}
    \cup {b \in HugeInputs : internal_buffer = EmptyBuf}

\* new() / new(chunk_size): lib.rs 42-68, zlib.rs 36-64.
InitEngine ==
    /\ kind \in {"Decompressor", "ZlibDecompressor"}
    /\ chunk_size \in IF kind = "ZlibDecompressor" THEN 0..MaxChunkSize ELSE {0}
    /\ finished = FALSE
    /\ internal_buffer = EmptyBuf
    /\ strm = InitStream
    /\ pc = "idle"
    /\ input_chunk = EmptyBuf
    /\ output_buffer = <<>>
    /\ result = NoResult
    /\ entry = [op |-> "none", data |-> EmptyBuf, finished |-> FALSE, buffer |-> EmptyBuf]
    /\ stepped = FALSE
    /\ tick = FALSE
    /\ fed = <<>>
    /\ produced = <<>>
    /\ last_code = "none"
    /\ last_written = 0
    /\ errEver = FALSE
    /\ pushed = <<>>
    /\ delivered = <<>>
    /\ phase = "pushing"
    /\ released = 0

\* Drop::drop of either struct: lib.rs 29-37, zlib.rs 23-31.  The box that
\* holds the z_stream is rebuilt from the raw pointer and dropped, which frees
\* the z_stream itself; z_stream has no destructor and inflate::end is not
\* called.  The Vec fields are dropped with the struct, and the record of
\* the calls made to the engine ends with it.
DropEngine ==
    /\ pc = "idle"
    /\ pc' = "dropped"
    /\ strm' = [mode |-> "freed", pending |-> <<>>]
    /\ internal_buffer' = EmptyBuf
    /\ result' = NoResult
    /\ entry' = [op |-> "drop", data |-> EmptyBuf, finished |-> finished,
                 buffer |-> EmptyBuf]
    /\ stepped' = FALSE /\ tick' = FALSE
    /\ fed' = <<>> /\ produced' = <<>>
    /\ last_code' = "none" /\ last_written' = 0
    /\ pushed' = <<>> /\ delivered' = <<>> /\ phase' = "other"
    /\ UNCHANGED <<engine, finished, input_chunk, output_buffer, errEver>>

Init == InitEngine /\ lib = "zlib"

InitAny == InitEngine /\ lib = "any"

Steps == PushStep \/ FinishStep \/ ZPushStep

Next ==
    \/ \E data \in PushInputs : PushCall(data)
    \/ PushStep
    \/ FinishCall
    \/ FinishStep
    \/ \E data \in ZPushInputs : ZPushCall(data)
    \/ ZPushStep
    \/ DropEngine

Spec == Init /\ [][Next]_vars

\* A handler that is running keeps running: the loops have no await.
FairSpec == Spec /\ WF_vars(Steps)

SpecAny == InitAny /\ [][Next]_vars

FairSpecAny == SpecAny /\ WF_vars(Steps)

\* ------------------------------------------------------------------ claims

\* The Decompressor being between calls.
DecIdle == kind = "Decompressor" /\ pc = "idle"

\* The ZlibDecompressor being between calls.
ZIdle == kind = "ZlibDecompressor" /\ pc = "idle"

\* A stream with no invalid code before its end, and one that also has its end.
WellFormed(s) == \A i \in 1..Len(s) : s[i] = 3 => \E j \in 1..(i - 1) : s[j] = 2
Complete(s) == WellFormed(s) /\ \E i \in 1..Len(s) : s[i] = 2

\* Decompressor::push run to its return on a new engine (lib.rs 73-200).
RECURSIVE PushRun(_, _, _, _)
PushRun(fin, st, in, out) ==
    LET r == inflate(st, in, OUTPUT_CHUNK_SIZE, "NoFlush")
        n == push_iter(fin, in, out, r)
    IN  IF n.pc = "idle" THEN n.result
        ELSE PushRun(n.finished, r.strm, n.input_chunk, n.output_buffer)

SinglePush(s) == IF s = <<>> THEN ResultObj(<<>>, FALSE) ELSE PushRun(FALSE, InitStream, s, <<>>)

\* C1: after a complete compressed stream has been pushed in any number of
\* push calls and finish has then been called once, the data fields returned
\* so far, concatenated, are the whole output of the stream; and a call in
\* which inflate reported StreamEnd returns finished = true.
C1_RoundTrip ==
    /\ (DecIdle /\ phase = "finish1" /\ Complete(pushed))
            => (delivered = Decode(pushed) /\ finished)
    /\ (DecIdle /\ last_code = "StreamEnd")
            => ("finished" \in result.fields /\ result.finished /\ finished)

\* C1 witness: a complete stream whose output does not fit one scratch buffer
\* has been pushed and finish has returned.
C1_Witness ==
    /\ DecIdle /\ phase = "finish1" /\ entry.op = "finish"
    /\ Complete(pushed)
    /\ Len(delivered) > OUTPUT_CHUNK_SIZE

\* C2 (as claimed): whatever the split into push calls, the data returned by
\* the pushes is the data one push of the whole input returns.
C2_ChunkIndependence ==
    (DecIdle /\ phase = "pushing" /\ WellFormed(pushed))
        => delivered = SinglePush(pushed).data

\* The envelope a call on a finished engine returns.
NoOpEnvelope ==
    [ret |-> "object",
     fields |-> IF kind = "Decompressor" THEN {"ok", "finished"} ELSE {"ok"},
     ok |-> TRUE, data |-> <<>>, finished |-> (kind = "Decompressor"), error |-> ""]

\* A failure envelope: { ok: false, error }, without data.
IsErrorEnvelope(res) ==
    /\ res.ret = "object" /\ ~res.ok
    /\ res.fields = {"ok", "error"} /\ res.error # ""

\* C3: once finished is true it stays true, and every call made then returns
\* success without data (finished = true from the Decompressor), calls
\* inflate not at all and leaves the context, the accumulation buffer and the
\* delivered output as they were.
C3_TerminalAbsorbing ==
    [][finished =>
          /\ finished'
          /\ pc' # "dropped" =>
                /\ pc' = "idle"
                /\ result' = NoOpEnvelope /\ ~stepped'
                /\ strm' = strm /\ internal_buffer' = internal_buffer
                /\ delivered' = delivered]_vars

\* C3 witness: a ZlibDecompressor latched by an error has been pushed bytes.
C3_Witness ==
    /\ ZIdle /\ entry.op = "zpush" /\ entry.finished /\ errEver
    /\ entry.data.bytes # <<>> /\ internal_buffer = EmptyBuf

\* The explicit bytes of the accumulation buffer of the last push, after the
\* pushed bytes were appended to it, and whether it ends with 00 00 FF FF.
FrameBytes ==
    IF entry.data.huge THEN entry.data.bytes ELSE entry.buffer.bytes \o entry.data.bytes

FrameHuge == entry.data.huge \/ entry.buffer.huge

EndsInMarker(s) ==
    /\ Len(s) >= 4
    /\ s[Len(s) - 3] = 0 /\ s[Len(s) - 2] = 0
    /\ s[Len(s) - 1] = 255 /\ s[Len(s)] = 255

\* The last call was a push to an unfinished ZlibDecompressor.
ZPushed == ZIdle /\ entry.op = "zpush" /\ ~entry.finished

\* C4: a push to an unfinished ZlibDecompressor after which the buffer does
\* not end with the marker returns { ok: true } without data, calls inflate
\* not at all and leaves the buffer as the old content followed by the pushed
\* bytes.
C4_FrameGating ==
    (ZPushed /\ ~EndsInMarker(FrameBytes))
        => /\ result = [ret |-> "object", fields |-> {"ok"}, ok |-> TRUE, data |-> <<>>,
                        finished |-> FALSE, error |-> ""]
           /\ ~stepped
           /\ internal_buffer = [huge |-> FrameHuge, bytes |-> FrameBytes]

\* C4 witness: bytes were added to a buffer that now ends with FF FF, over at
\* least four bytes, but not with the marker.
C4_Witness ==
    /\ ZPushed /\ ~EndsInMarker(FrameBytes)
    /\ entry.buffer.bytes # <<>> /\ entry.data.bytes # <<>>
    /\ Len(FrameBytes) >= 4
    /\ FrameBytes[Len(FrameBytes)] = 255 /\ FrameBytes[Len(FrameBytes) - 1] = 255

\* C5: the push that completes the marker, when no inflate call of it reports
\* StreamEnd or an error, has fed the whole accumulated buffer, in order and
\* with the marker, to the context, returns all the output of the frame and
\* leaves the buffer empty.
C5_FrameCompletion ==
    (ZPushed /\ EndsInMarker(FrameBytes) /\ result.ret = "object" /\ result.ok
         /\ last_code # "StreamEnd")
        => /\ fed = FrameBytes
           /\ result.data = produced /\ produced = Decode(FrameBytes)
           /\ ("data" \in result.fields) = (produced # <<>>)
           /\ strm.pending = <<>>
           /\ internal_buffer = EmptyBuf

\* C5 witness: the marker arrived split over pushes, after earlier bytes, and
\* the frame's output filled the scratch buffer more than once.
C5_Witness ==
    /\ ZPushed /\ EndsInMarker(FrameBytes) /\ result.ret = "object" /\ result.ok
    /\ last_code # "StreamEnd"
    /\ entry.buffer.bytes # <<>> /\ Len(entry.data.bytes) < 4
    /\ Len(result.data) > chunk_size

\* C6: a call in which inflate reports a data error returns a failure
\* envelope without data and latches finished; the output collected before
\* the error is returned neither then nor by a later call.
C6_Corruption ==
    /\ (pc = "idle" /\ last_code = "DataError") => (IsErrorEnvelope(result) /\ finished)
    /\ (pc = "idle" /\ errEver) => (finished /\ "data" \notin result.fields)

\* C6 witness: inflate wrote output and a later inflate call of the same call
\* reported the data error.
C6_Witness ==
    /\ pc = "idle" /\ last_code = "DataError"
    /\ produced # <<>> /\ last_written = 0

\* The last call met a failure of an inflate call: a decode error, a missing
\* stream reference, or, in finish, BufError with nothing written.
StepFailure ==
    \/ last_code \in {"DataError", "NoRef"}
    \/ entry.op = "finish" /\ last_code = "BufError" /\ last_written = 0

\* The last call handed inflate an input longer than u32::MAX.
Overflow ==
    /\ ~entry.finished
    /\ \/ entry.op = "push" /\ entry.data.huge
       \/ entry.op = "zpush" /\ FrameHuge /\ EndsInMarker(FrameBytes)

\* C7 (as claimed): after a call that failed for any reason the caller holds
\* a failure envelope and finished is true.
C7_AllFailuresLatched ==
    (pc = "idle" /\ (result.ret = "Err" \/ (result.ret = "object" /\ ~result.ok)))
        => (IsErrorEnvelope(result) /\ finished)

\* C7 (amended): a call that fails by a decode error, a missing stream
\* reference or a buffer too small to finish returns a failure envelope and
\* latches finished; a call that fails otherwise returns Err, fails by
\* capacity overflow and leaves finished false.
C7_FailuresLatchedButOverflow ==
    /\ (pc = "idle" /\ StepFailure) => (IsErrorEnvelope(result) /\ finished)
    /\ (pc = "idle" /\ result.ret = "object" /\ ~result.ok)
            => (IsErrorEnvelope(result) /\ finished /\ StepFailure)
    /\ (pc = "idle" /\ result.ret = "Err") => (Overflow /\ ~finished)

\* C7 witness: finish drained output and then met BufError with nothing
\* written.
C7_Witness ==
    /\ DecIdle /\ entry.op = "finish"
    /\ last_code = "BufError" /\ last_written = 0 /\ produced # <<>>
    /\ IsErrorEnvelope(result)

\* C8: a call whose input for inflate is longer than u32::MAX fails with Err
\* before inflate is called, and finished stays false.
C8_CapacityOverflow ==
    (pc = "idle" /\ Overflow) => (result.ret = "Err" /\ ~finished /\ ~stepped)

\* C8 witness: a ZlibDecompressor accumulated more than u32::MAX bytes and a
\* later push completed the marker.
C8_Witness ==
    /\ ZIdle /\ Overflow /\ entry.buffer.huge /\ ~entry.data.huge
    /\ result.ret = "Err"

\* C9 (as claimed): every push of a Decompressor returns.
C9_PushTerminates == (pc = "push") ~> (pc = "idle")

\* C10 (as claimed): every push of a ZlibDecompressor returns.
C10_ZPushTerminates == (pc = "zpush") ~> (pc = "idle")

\* With a chunk_size above zero every push of a ZlibDecompressor returns.
ZPushTerminatesPositive == (pc = "zpush" /\ chunk_size > 0) ~> (pc = "idle")

\* C11 (as claimed): once an engine has been discarded, the teardown of its
\* decompression context has run exactly once.
C11_ReleasedOnce == (pc = "dropped") => (released = 1)

\* The last call returned an envelope object.
Returned == pc = "idle" /\ result.ret = "object"

\* What C12 says of every envelope but for the finished field.
EnvelopeFields ==
    /\ "ok" \in result.fields
    /\ "data" \in result.fields => (result.data # <<>> /\ produced # <<>> /\ result.ok)
    /\ ("error" \in result.fields) = ~result.ok
    /\ result.fields \subseteq {"ok", "data", "finished", "error"}

\* C12 (as claimed): every envelope has ok; data only when the call produced
\* output, and never on a failure; error exactly when ok is false; and every
\* envelope of the Decompressor has finished.
C12_EnvelopeShape ==
    Returned => (EnvelopeFields /\ (kind = "Decompressor" => "finished" \in result.fields))

\* C12 (amended): as claimed, but the Decompressor sets finished on its
\* success envelopes only; its failure envelopes are { ok, error }.
C12_EnvelopeShapeSuccessFinished ==
    Returned =>
        /\ EnvelopeFields
        /\ (kind = "Decompressor") => (("finished" \in result.fields) = result.ok)
        /\ (kind = "ZlibDecompressor") => "finished" \notin result.fields

\* C12 witness: a Decompressor call that wrote no output returned success,
\* without a data field.
C12_Witness ==
    /\ Returned /\ kind = "Decompressor" /\ ~entry.finished
    /\ result.ok /\ stepped /\ produced = <<>>
    /\ result.fields = {"ok", "finished"}

\* The last call was a push to an unfinished Decompressor that returned
\* success with finished = false.
PushActive ==
    /\ DecIdle /\ entry.op = "push" /\ ~entry.finished
    /\ result.ret = "object" /\ result.ok /\ ~result.finished

\* C13 (as claimed): when push returns success with finished = false, the
\* context has consumed every byte that was pushed.
C13_PushConsumesAll == PushActive => fed = entry.data.bytes

\* C14 (as claimed): when push returns success with finished = false, its
\* last inflate call did not fill the scratch buffer, and no decoded output
\* is left pending in the context, also after a push of zero bytes.
C14_PushDrains ==
    PushActive =>
        /\ stepped => last_written < OUTPUT_CHUNK_SIZE
        /\ strm.pending = <<>>

\* The second half of C14 alone: after a push of zero bytes no decoded output
\* is left pending.
ZeroPushDrains ==
    (PushActive /\ entry.data = EmptyBuf) => strm.pending = <<>>

\* The last call was a finish on an unfinished Decompressor.
Finished1 == DecIdle /\ entry.op = "finish" /\ ~entry.finished

\* C15 (as claimed): finish on an unfinished Decompressor returns success,
\* with finished = true, only when an inflate call of it reported StreamEnd;
\* every other return of finish is a failure envelope that latches finished.
C15_FinishOnlyOnStreamEnd ==
    Finished1 =>
        IF last_code = "StreamEnd"
        THEN result.ret = "object" /\ result.ok /\ result.finished /\ finished
        ELSE IsErrorEnvelope(result) /\ finished

\* C16: when an inflate call of a Decompressor push reports StreamEnd, push
\* calls inflate no more, finished is latched, and push returns success with
\* finished = true and, as data, all the output written during this push, the
\* StreamEnd call's included; only the bytes consumed until then, a prefix of
\* the pushed bytes, were fed.
C16_PushStreamEnd ==
    (kind = "Decompressor" /\ entry.op = "push" /\ last_code = "StreamEnd")
        => /\ pc = "idle" /\ finished
           /\ result.ret = "object" /\ result.ok
           /\ "finished" \in result.fields /\ result.finished
           /\ result.data = produced
           /\ ("data" \in result.fields) = (produced # <<>>)
           /\ Len(fed) <= Len(entry.data.bytes)
           /\ fed = Take(entry.data.bytes, Len(fed))

\* C16 witness: StreamEnd came after more than one scratch buffer of output,
\* written in this push, and before the end of the pushed bytes.
C16_Witness ==
    /\ DecIdle /\ entry.op = "push" /\ last_code = "StreamEnd"
    /\ Len(produced) > OUTPUT_CHUNK_SIZE
    /\ Len(fed) < Len(entry.data.bytes)
    /\ result.data = produced

\* C17: when an inflate call of a ZlibDecompressor push reports StreamEnd,
\* push calls inflate no more, finished is latched, the rest of the frame is
\* dropped (internal_buffer stays empty) and push returns success with the
\* output written for the frame so far.
C17_FrameStreamEnd ==
    (kind = "ZlibDecompressor" /\ entry.op = "zpush" /\ last_code = "StreamEnd")
        => /\ pc = "idle" /\ finished
           /\ result.ret = "object" /\ result.ok
           /\ result.data = produced
           /\ ("data" \in result.fields) = (produced # <<>>)
           /\ internal_buffer = EmptyBuf
           /\ Len(fed) <= Len(FrameBytes)
           /\ fed = Take(FrameBytes, Len(fed))

\* C17 witness: StreamEnd came before the end of the frame, after more output
\* than one scratch buffer holds.
C17_Witness ==
    /\ ZIdle /\ entry.op = "zpush" /\ last_code = "StreamEnd"
    /\ Len(fed) < Len(FrameBytes)
    /\ chunk_size > 0 /\ Len(produced) > chunk_size
    /\ result.data = produced /\ finished

\* An inflate call that returns a decode error, and the error descriptions
\* the three handlers give for it.
DataErrorOutcome ==
    [code |-> "DataError", consumed |-> 0, out |-> <<>>, strm |-> InitStream]

DecodeErrorDescriptions ==
    {push_iter(FALSE, <<1>>, <<>>, DataErrorOutcome).result.error,
     finish_iter(FALSE, <<>>, DataErrorOutcome).result.error,
     zpush_iter(FALSE, <<1>>, <<>>, DataErrorOutcome).result.error}

\* C18: in finish, BufError with nothing written gives a failure envelope
\* without data whose description no decode error has, and latches finished;
\* BufError with bytes written appends them and finish calls inflate again.
C18_BufferTooSmall ==
    /\ (Finished1 /\ last_code = "BufError" /\ last_written = 0)
            => /\ IsErrorEnvelope(result) /\ "data" \notin result.fields
               /\ result.error \notin DecodeErrorDescriptions
               /\ finished
    /\ (kind = "Decompressor" /\ entry.op = "finish" /\ last_code = "BufError"
            /\ last_written > 0)
            => /\ pc = "finish" /\ ~finished
               /\ output_buffer = produced

\* C18 witness: finish appended more than one scratch buffer of output over
\* BufError returns and then met BufError with nothing written.
C18_Witness ==
    /\ Finished1 /\ last_code = "BufError" /\ last_written = 0
    /\ Len(produced) > OUTPUT_CHUNK_SIZE
    /\ result.error = "Output buffer too small to finish inflation"

\* C19: a push to a ZlibDecompressor that succeeds and leaves the engine
\* unfinished conserves bytes: what the context consumed during the call,
\* followed by the accumulation buffer after it, is the accumulation buffer
\* before the call followed by the pushed bytes.  Over a sequence of such
\* pushes from the empty buffer of a new engine, the bytes consumed so far
\* followed by the buffer are therefore all pushed bytes in push order.
C19_ByteConservation ==
    (ZPushed /\ result.ret = "object" /\ result.ok /\ ~finished)
        => /\ fed \o internal_buffer.bytes = FrameBytes
           /\ internal_buffer.huge = FrameHuge
           /\ stepped => (fed = FrameBytes /\ internal_buffer = EmptyBuf)
           /\ ~stepped => (fed = <<>> /\ internal_buffer.bytes = FrameBytes)

\* C19 witness: a frame gathered over several pushes was consumed whole by
\* the push that brought the end of its marker.
C19_Witness ==
    /\ ZPushed /\ result.ret = "object" /\ result.ok /\ ~finished
    /\ entry.buffer.bytes # <<>> /\ entry.data.bytes # <<>>
    /\ Len(entry.data.bytes) < Len(Z_SYNC_FLUSH_SUFFIX)
    /\ fed = entry.buffer.bytes \o entry.data.bytes
    /\ Len(fed) > Len(Z_SYNC_FLUSH_SUFFIX)

\* The loops of ZlibDecompressor::push (zlib.rs 97-178) run to the return on
\* a frame, by an engine whose scratch buffer has temp_len bytes.
RECURSIVE ZPushRun(_, _, _, _, _)
ZPushRun(temp_len, fin, st, in, out) ==
    LET r == inflate(st, in, temp_len, "NoFlush")
        n == zpush_iter_with(temp_len, fin, in, out, r)
    IN  IF n.pc = "idle" THEN [result |-> n.result, finished |-> n.finished, strm |-> r.strm]
        ELSE ZPushRun(temp_len, n.finished, r.strm, n.input_chunk, n.output_buffer)

\* Scratch sizes of the engine compared with: up to one more than the output
\* of the longest frame.
OtherChunkSizes == 1..(2 * MaxCodes + 1)

\* C20: what a push of a ZlibDecompressor with chunk_size above zero returns
\* for a frame, and the state it leaves, are what an engine of any other
\* chunk size above zero returns and leaves for the same frame.
C20_ScratchIndependence ==
    /\ (ZIdle /\ ~finished /\ chunk_size > 0) => strm = InitStream
    /\ (ZPushed /\ stepped /\ chunk_size > 0)
            => \A c \in OtherChunkSizes :
                    LET other == ZPushRun(c, FALSE, InitStream, FrameBytes, <<>>)
                    IN  /\ result = other.result
                        /\ finished = other.finished
                        /\ strm = other.strm

\* C20 witness: the output of the longest frame, which the engine wrote one
\* byte per inflate call, fits the scratch buffer of another engine at once.
C20_Witness ==
    /\ ZPushed /\ stepped /\ chunk_size = 1
    /\ Len(result.data) = 2 * MaxCodes
    /\ \E c \in OtherChunkSizes : c > Len(result.data)

\* C21 (as claimed): a push that fails by capacity overflow leaves the engine
\* as it was before the call: finished, the context, and the accumulation
\* buffer with the bytes gathered before the failing push.
C21_OverflowStateUnchanged ==
    (pc = "idle" /\ Overflow /\ result.ret = "Err")
        => /\ finished = entry.finished
           /\ ~stepped
           /\ internal_buffer = entry.buffer

\* C22: between the calls of a ZlibDecompressor, and after its drop, the
\* accumulation buffer does not end with 00 00 FF FF, whatever the last push
\* returned.
C22_BufferNeverEndsInMarker ==
    (kind = "ZlibDecompressor" /\ pc \in {"idle", "dropped"})
        => ~EndsInMarker(internal_buffer.bytes)

\* C22 witness: a push completed the marker on a buffer gathered earlier and
\* inflate reported a decode error; the buffer is empty afterwards.
C22_Witness ==
    /\ ZPushed /\ EndsInMarker(FrameBytes)
    /\ entry.buffer.bytes # <<>>
    /\ last_code = "DataError" /\ IsErrorEnvelope(result)
    /\ internal_buffer = EmptyBuf

====
